---- MODULE Spec2Model ----
(***************************************************************************)
(* Race-results ingestion of fis-scraper: the Race / RaceResult store      *)
(* behind one SQLAlchemy session, the get-or-create and all-in-one-batch   *)
(* save of RaceResultsScraper, the points-list resolver that gates a       *)
(* scrape, and the batch sweep process_events.                             *)
(***************************************************************************)
EXTENDS Integers, Sequences, FiniteSets, TLC

\* ------------------------------------------------------------------ bounds
MaxResults == 2     \* longest result list handed to record_race
MaxRaceId == 2      \* Race rows inserted over a run (the races.id sequence)
MaxSweep == 2       \* race ids one process_events call works through

\* ------------------------------------------------------------ Python values
None == -9          \* Python None in an integer-valued slot (no program integer is -9)
NoneStr == "None"   \* Python None in an enum- or string-valued slot

\* bool(x) of an Optional[int]
Truthy(x) == x # None /\ x # 0

Dates == {1, 2}
Disciplines == {"SL"}
FisDbIds == {0, 1}
AthleteIds == {1, 2}

\* ------------------------------------------------------------------- state
VARIABLES
    races,          \* table races as the session sees it; committed = FALSE: flushed in the open transaction
    race_results,   \* table race_results (committed rows)
    next_race_id,   \* sequence behind races.id
    needs_rollback, \* the session's transaction failed in a flush and was not rolled back
    points_lists,   \* table points_lists: validity windows
    athletes,       \* table athletes: rows [id, fis_db_id]
    sweep,          \* the running process_events call and its three counters
    last,           \* the latest call and what it returned
    args,           \* the arguments of the latest call, where the run keeps them
    writers         \* two concurrent runs on the store: where each is in record_race

vars == <<races, race_results, next_race_id, needs_rollback, points_lists, athletes, sweep,
          last, args, writers>>

\* The session-bound part of the store, handed through the operators.
Db == [races |-> races, race_results |-> race_results,
       next_race_id |-> next_race_id, needs_rollback |-> needs_rollback]

\* ------------------------------------------------------------ table helpers
\* The elements of s at the positions in keep, in order.
RECURSIVE Pick(_, _, _)
Pick(s, keep, i) ==
    IF i > Len(s) THEN <<>>
    ELSE (IF i \in keep THEN <<s[i]>> ELSE <<>>) \o Pick(s, keep, i + 1)

\* session.rollback(): every row inserted in the open transaction is gone.
Rollback(rs) == Pick(rs, {i \in 1..Len(rs) : rs[i].committed}, 1)

\* session.commit(): every flushed row becomes durable.
Commit(rs) == [i \in 1..Len(rs) |-> [rs[i] EXCEPT !.committed = TRUE]]

RaceIdsOf(rs) == {rs[i].id : i \in 1..Len(rs)}

\* len(race.race_results): the rows whose race_id is the race's id.
ResultCount(results, race_id) ==
    Cardinality({i \in 1..Len(results) : results[i].race_id = race_id})

\* Race rows per identity triple.
SameTriple(r, ri) ==
    /\ r.fis_db_id = ri.fis_db_id
    /\ r.race_date = ri.race_date
    /\ r.discipline = ri.discipline

\* query(Race).filter_by(fis_db_id, race_date, discipline).first(): the
\* position of the first matching row the session sees, 0 when there is none.
FindRaceCommittedOnly(rs, ri) ==
    LET hits == {i \in 1..Len(rs) : SameTriple(rs[i], ri) /\ rs[i].committed}
    IN IF hits = {} THEN 0 ELSE CHOOSE i \in hits : \A j \in hits : i <= j

\* A lookup that never finds a row.
FindRaceBlind(rs, ri) == 0

FindRace(rs, ri) ==
    LET hits == {i \in 1..Len(rs) : SameTriple(rs[i], ri)}
    IN IF hits = {} THEN 0 ELSE CHOOSE i \in hits : \A j \in hits : i <= j

\* Race(...) built from the header dictionary.
NewRace(ri, id) ==
    [id |-> id,
     fis_db_id |-> ri.fis_db_id,
     race_date |-> ri.race_date,
     discipline |-> ri.discipline,
     win_time |-> ri.win_time,
     penalty |-> ri.penalty,
     total_starters |-> ri.total_starters,
     total_finishers |-> ri.total_finishers,
     committed |-> FALSE]

\* not all([fis_db_id, race_date, discipline]) -- the hard precondition.
MissingRequiredDateOnly(ri) ==
    \/ ri.race_date = None
    \/ ri.discipline = NoneStr

MissingRequired(ri) ==
    \/ ~Truthy(ri.fis_db_id)
    \/ ri.race_date = None
    \/ ri.discipline = NoneStr

\* _get_or_create_race.  flush_fails: session.flush() of the new row raises.
\* A failed flush rolls the transaction back and leaves the session waiting
\* for rollback(); every later query on it raises.
_get_or_create_race(db, ri, flush_fails) ==
    IF MissingRequired(ri)
    THEN [db |-> db, race |-> None, raised |-> FALSE, created |-> FALSE]
    ELSE IF db.needs_rollback
    THEN [db |-> db, race |-> None, raised |-> TRUE, created |-> FALSE]
    ELSE LET i == FindRace(db.races, ri) IN
         IF i # 0
         THEN [db |-> db, race |-> db.races[i].id, raised |-> FALSE, created |-> FALSE]
         ELSE IF flush_fails
         THEN [db |-> [db EXCEPT !.races = Rollback(@), !.needs_rollback = TRUE],
               race |-> None, raised |-> FALSE, created |-> FALSE]
         ELSE [db |-> [db EXCEPT !.races = Append(@, NewRace(ri, db.next_race_id)),
                                 !.next_race_id = @ + 1],
               race |-> db.next_race_id, raised |-> FALSE, created |-> TRUE]

\* ------------------------------------------------------- _save_race_results
\* A RaceResult that takes its total time from the first run.
NewResultRun1AsTotal(race_id, athlete_id, rd) ==
    [race_id |-> race_id,
     athlete_id |-> athlete_id,
     points |-> rd.points,
     rank |-> rd.rank,
     racer_time |-> rd.run1_time,
     result |-> rd.result,
     run1_time |-> rd.run1_time,
     run2_time |-> rd.run2_time]

\* RaceResult(...) built from one result dictionary.
NewResult(race_id, athlete_id, rd) ==
    [race_id |-> race_id,
     athlete_id |-> athlete_id,
     points |-> rd.points,
     rank |-> rd.rank,
     racer_time |-> rd.racer_time,
     result |-> rd.result,
     run1_time |-> rd.run1_time,
     run2_time |-> rd.run2_time]

\* A lookup that answers some athlete when none has the id.
_get_fis_athlete_any(known, fis_db_id) ==
    LET hits == IF {a \in known : a.fis_db_id = fis_db_id} = {} THEN known
                ELSE {a \in known : a.fis_db_id = fis_db_id}
    IN IF hits = {} THEN None
       ELSE (CHOOSE a \in hits : \A b \in hits : a.id <= b.id).id

\* _get_fis_athlete: query(Athlete).filter_by(fis_db_id=...).first(); the
\* row's primary key, None when no row matches.
_get_fis_athlete(known, fis_db_id) ==
    LET hits == {a \in known : a.fis_db_id = fis_db_id}
    IN IF hits = {} THEN None
       ELSE (CHOOSE a \in hits : \A b \in hits : a.id <= b.id).id

\* The foreign key race_results.race_id -> races.id, checked when rows are flushed.
FkOk(s) == \A i \in 1..Len(s.pending) : s.pending[i].race_id \in RaceIdsOf(s.races)

\* except ...: session.rollback() inside the loop: the open transaction is
\* dropped whole (rows flushed for this batch, the race row when this
\* transaction inserted it); saved_count is left as it is.
LoopRollback(s) ==
    [s EXCEPT !.races = Rollback(@), !.flushed = <<>>, !.pending = <<>>, !.failed = TRUE]

\* One pass of the loop in which a result without an athlete ends the batch:
\* what was added so far is dropped.
SaveStepAbandon(s, race_id, rd, outcome, known) ==
    IF outcome = "error" \/ ~FkOk(s)
    THEN LoopRollback(s)
    ELSE LET s1 == [s EXCEPT !.flushed = @ \o s.pending, !.pending = <<>>]
             athlete == _get_fis_athlete(known, rd.athlete_fis_db_id) IN
         IF athlete = None
         THEN [s1 EXCEPT !.flushed = <<>>]
         ELSE [s1 EXCEPT !.pending = Append(@, NewResult(race_id, athlete, rd)),
                         !.saved_count = @ + 1]

\* One pass of "for result_data in results".  outcome = "error": the body
\* raises (the autoflush of the athlete query, or the query itself).
SaveStep(s, race_id, rd, outcome, known) ==
    IF outcome = "error" \/ ~FkOk(s)
    THEN LoopRollback(s)
    ELSE LET s1 == [s EXCEPT !.flushed = @ \o s.pending, !.pending = <<>>]
             athlete == _get_fis_athlete(known, rd.athlete_fis_db_id) IN
         IF athlete = None
         THEN s1
         ELSE [s1 EXCEPT !.pending = Append(@, NewResult(race_id, athlete, rd)),
                         !.saved_count = @ + 1]

RECURSIVE SaveLoop(_, _, _, _, _, _)
SaveLoop(s, race_id, results, outcomes, known, i) ==
    IF i > Len(results) THEN s
    ELSE SaveLoop(SaveStep(s, race_id, results[i], outcomes[i], known),
                  race_id, results, outcomes, known, i + 1)

\* session.commit() after the loop; a failure rolls back and reports 0.
SaveCommit(s, commit_fails) ==
    IF commit_fails \/ ~FkOk(s)
    THEN [db_races |-> Rollback(s.races), added |-> <<>>,
          saved_count |-> 0, failed |-> TRUE]
    ELSE [db_races |-> Commit(s.races), added |-> s.flushed \o s.pending,
          saved_count |-> s.saved_count, failed |-> s.failed]

\* _save_race_results(race, results).  known: table athletes; outcomes[i]: whether pass i raises; commit_fails: whether the
\* final commit raises.
_save_race_results(db, race_id, results, outcomes, commit_fails, known) ==
    IF results = <<>>
    THEN [db |-> db, saved_count |-> 0, failed |-> FALSE]
    ELSE LET s0 == [races |-> db.races, flushed |-> <<>>, pending |-> <<>>,
                    saved_count |-> 0, failed |-> FALSE]
             s1 == SaveLoop(s0, race_id, results, outcomes, known, 1)
             c == SaveCommit(s1, commit_fails)
         IN [db |-> [db EXCEPT !.races = c.db_races,
                               !.race_results = @ \o c.added],
             saved_count |-> c.saved_count,
             failed |-> c.failed]

\* ------------------------------------------------------------- record_race
\* record_race without its "already has results" return.
record_race_unguarded(db, ri, results, flush_fails, outcomes, commit_fails, known) ==
    LET g == _get_or_create_race(db, ri, flush_fails) IN
    IF g.raised
    THEN [db |-> db, ret |-> None, raised |-> TRUE, race |-> None, failed |-> FALSE]
    ELSE IF g.race # None /\ results # <<>>
    THEN LET s == _save_race_results(g.db, g.race, results, outcomes, commit_fails, known)
         IN [db |-> s.db, ret |-> s.saved_count, raised |-> FALSE, race |-> g.race,
             failed |-> s.failed]
    ELSE IF g.race # None
    THEN [db |-> g.db, ret |-> 0, raised |-> FALSE, race |-> g.race, failed |-> FALSE]
    ELSE [db |-> g.db, ret |-> -1, raised |-> FALSE, race |-> None, failed |-> FALSE]

\* record_race answering 0 where it has no race.
record_race_zero(db, ri, results, flush_fails, outcomes, commit_fails, known) ==
    LET g == _get_or_create_race(db, ri, flush_fails) IN
    IF g.raised
    THEN [db |-> db, ret |-> None, raised |-> TRUE, race |-> None, failed |-> FALSE]
    ELSE IF g.race # None /\ ResultCount(g.db.race_results, g.race) > 0
    THEN [db |-> g.db, ret |-> 0, raised |-> FALSE, race |-> g.race, failed |-> FALSE]
    ELSE IF g.race # None /\ results # <<>>
    THEN LET s == _save_race_results(g.db, g.race, results, outcomes, commit_fails, known)
         IN [db |-> s.db, ret |-> s.saved_count, raised |-> FALSE, race |-> g.race,
             failed |-> s.failed]
    ELSE [db |-> g.db, ret |-> 0, raised |-> FALSE, race |-> None, failed |-> FALSE]

\* record_race(race_info, results)
record_race(db, ri, results, flush_fails, outcomes, commit_fails, known) ==
    LET g == _get_or_create_race(db, ri, flush_fails) IN
    IF g.raised
    THEN [db |-> db, ret |-> None, raised |-> TRUE, race |-> None, failed |-> FALSE]
    ELSE IF g.race # None /\ ResultCount(g.db.race_results, g.race) > 0
    THEN [db |-> g.db, ret |-> 0, raised |-> FALSE, race |-> g.race, failed |-> FALSE]
    ELSE IF g.race # None /\ results # <<>>
    THEN LET s == _save_race_results(g.db, g.race, results, outcomes, commit_fails, known)
         IN [db |-> s.db, ret |-> s.saved_count, raised |-> FALSE, race |-> g.race,
             failed |-> s.failed]
    ELSE IF g.race # None
    THEN [db |-> g.db, ret |-> 0, raised |-> FALSE, race |-> g.race, failed |-> FALSE]
    ELSE [db |-> g.db, ret |-> -1, raised |-> FALSE, race |-> None, failed |-> FALSE]

\* ------------------------------------------------- points-list resolver
\* The external catalog of points lists (PointsListScraper.get_points_lists):
\* a list with a one-day window, one covering both days, and one whose end
\* date did not parse.  athletes: the Competitorid values of the list's CSV.
CatalogEntries ==
    {[listid |-> 1, valid_from |-> 1, valid_to |-> 1, athletes |-> {1}],
     [listid |-> 2, valid_from |-> 1, valid_to |-> 2, athletes |-> {1, 2}],
     [listid |-> 3, valid_from |-> 2, valid_to |-> None, athletes |-> {2}]}

Catalogs ==
    {<<>>} \cup {<<a>> : a \in CatalogEntries}
           \cup {c \in CatalogEntries \X CatalogEntries : c[1] # c[2]}

\* valid_from <= race_date <= valid_to
Covers(lst, race_date) == lst.valid_from <= race_date /\ race_date <= lst.valid_to

\* _get_points_list_for_date: the listid of a stored list valid on the date.
_get_points_list_for_date(pls, race_date) ==
    LET hits == {l \in pls : Covers(l, race_date)}
    IN IF hits = {} THEN None
       ELSE (CHOOSE l \in hits : \A m \in hits : l.listid <= m.listid).listid

\* valid_lists without the window test.
ValidListsAnyWindow(catalog, race_date) ==
    Pick(catalog, {i \in 1..Len(catalog) :
                      catalog[i].valid_from # None /\ catalog[i].valid_to # None}, 1)

\* valid_lists: the catalog entries with both dates set that cover the date.
ValidLists(catalog, race_date) ==
    Pick(catalog, {i \in 1..Len(catalog) :
                      /\ catalog[i].valid_from # None
                      /\ catalog[i].valid_to # None
                      /\ Covers(catalog[i], race_date)}, 1)

\* PointsListScraper.download_and_process_points_list: on success the list
\* and the athletes it names are committed (by the collaborator's own
\* session); on any failure nothing is stored and False is returned.
download_and_process_points_list(pls, aths, desc, ingest_ok) ==
    IF ingest_ok
    THEN [points_lists |-> pls \cup {[listid |-> desc.listid,
                                      valid_from |-> desc.valid_from,
                                      valid_to |-> desc.valid_to]},
          athletes |-> aths \cup {[id |-> 10 + f, fis_db_id |-> f] : f \in desc.athletes},
          success |-> TRUE]
    ELSE [points_lists |-> pls, athletes |-> aths, success |-> FALSE]

NoResolver ==
    [called |-> FALSE, ret |-> None, ingest_calls |-> 0, catalog_requests |-> 0,
     ingested |-> None]

\* _ensure_points_list_for_date
_ensure_points_list_for_date(pls, aths, race_date, catalog, ingest_ok) ==
    LET local == _get_points_list_for_date(pls, race_date)
        valid_lists == ValidLists(catalog, race_date)
        base == [NoResolver EXCEPT !.called = TRUE]
    IN IF local # None
       THEN [points_lists |-> pls, athletes |-> aths,
             res |-> [base EXCEPT !.ret = local]]
       ELSE IF valid_lists = <<>>
       THEN [points_lists |-> pls, athletes |-> aths,
             res |-> [base EXCEPT !.catalog_requests = 1]]
       ELSE LET d == download_and_process_points_list(pls, aths, valid_lists[1], ingest_ok)
            IN [points_lists |-> d.points_lists, athletes |-> d.athletes,
                res |-> [base EXCEPT !.catalog_requests = 1,
                                     !.ingest_calls = 1,
                                     !.ingested = valid_lists[1].listid,
                                     !.ret = IF d.success
                                             THEN _get_points_list_for_date(d.points_lists, race_date)
                                             ELSE None]]

\* ------------------------------------------------------ scrape_race_results
\* A fetched race page: the header's date and discipline (None when the
\* element is absent or does not parse), whether the finisher table is
\* there, its rows, and the non-finisher tables with their headings.  A row
\* with ok = FALSE lacks the container the row parser looks for.  A row's
\* cells are texts: the first cell, the time cells in page order, the points
\* cell; athlete_fis_db_id is the competitorid of the row's link.
TableRow(ok, a, rank_text, times, points_text) ==
    [ok |-> ok, athlete_fis_db_id |-> a, rank_text |-> rank_text,
     times |-> times, points_text |-> points_text]

\* A row as a two-run race lists it: with a rank, three times and points, or
\* with an empty first cell and no time.
FinisherRow(ok, a, rank_text) ==
    IF rank_text = ""
    THEN TableRow(ok, a, "", <<>>, "")
    ELSE TableRow(ok, a, rank_text, <<"58.50", "1:02.30", "2:00.80">>, "12.50")

FinisherTables ==
    {<<>>,
     <<FinisherRow(TRUE, 1, "1")>>,
     <<FinisherRow(FALSE, 1, "1")>>,
     <<FinisherRow(TRUE, 1, "1"), FinisherRow(FALSE, 2, "2")>>,
     <<FinisherRow(FALSE, 1, "1"), FinisherRow(TRUE, 2, "2")>>}

\* The text above a non-finisher table: what it says and the run it names.
Heading(phrase, run) == [phrase |-> phrase, run |-> run]

NonFinisherTables ==
    {<<>>,
     <<[heading |-> Heading("Did not finish", "1st run"),
        rows |-> <<FinisherRow(TRUE, 2, "")>>]>>}

Pages ==
    {[fetch_ok |-> FALSE, race_date |-> None, discipline |-> NoneStr,
      has_table |-> FALSE, rows |-> <<>>, non_finishers |-> <<>>]}
    \cup [fetch_ok : {TRUE}, race_date : Dates \cup {None},
          discipline : Disciplines \cup {NoneStr}, has_table : {FALSE},
          rows : {<<>>}, non_finishers : {<<>>}]
    \cup [fetch_ok : {TRUE}, race_date : Dates \cup {None},
          discipline : Disciplines \cup {NoneStr}, has_table : {TRUE},
          rows : FinisherTables, non_finishers : NonFinisherTables]

\* The page of a request that failed: the RequestException is caught at the
\* end of scrape_race_results.
NoPage ==
    [fetch_ok |-> FALSE, race_date |-> None, discipline |-> NoneStr,
     has_table |-> FALSE, rows |-> <<>>, non_finishers |-> <<>>]

\* Rows a results page may list: a two-run finisher, a one-run finisher of an
\* athlete the store may lack, a row whose first cell is no number, rows
\* without a time or with a time cell that is no time, a row whose link
\* carries no competitorid, and a row without its container.
ScrapeRows ==
    {FinisherRow(TRUE, 1, "1"),
     TableRow(TRUE, 2, "2", <<"58.50">>, "0.00"),
     TableRow(TRUE, 1, "", <<"58.50">>, "12.50"),
     TableRow(TRUE, 1, "1", <<>>, ""),
     TableRow(TRUE, 1, "2", <<"58.50", "DNF", "-">>, "12.50"),
     TableRow(TRUE, None, "2", <<"58.50">>, "0.00"),
     FinisherRow(FALSE, 1, "1")}

\* Finisher tables of a page: any one row, or a first row that parses or
\* does not, followed by any rows.
ScrapeFinisherTables ==
    UNION {{t \in [1..n -> ScrapeRows] :
              n > 1 => t[1] \in {FinisherRow(TRUE, 1, "1"), FinisherRow(FALSE, 1, "1")}} :
           n \in 0..MaxResults}

ScrapeHeadings ==
    {Heading(phrase, run) :
        phrase \in {"Disqualified", "Did not finish", "Did not start",
                    "Did not qualify", "Not permitted to start", "Reserve"},
        run \in {"1st run", "2nd run", ""}}
    \cup {Heading("DID NOT START", "1ST RUN")}

\* Non-finisher tables of a page: none, one table with a row whose first
\* cell is empty, one whose row shows a bib number and a first-run time, or
\* the two "did not start" tables of a two-run race.
ScrapeNonFinisherTables ==
    {<<>>}
    \cup {<<[heading |-> h, rows |-> <<FinisherRow(TRUE, 1, "")>>]>> : h \in ScrapeHeadings}
    \cup {<<[heading |-> Heading("Did not finish", "2nd run"),
             rows |-> <<TableRow(TRUE, 1, "7", <<"58.50">>, "")>>]>>,
          <<[heading |-> Heading("DID NOT START", "1ST RUN"),
             rows |-> <<FinisherRow(TRUE, 1, ""), FinisherRow(TRUE, 2, "")>>],
            [heading |-> Heading("Did not start", "2nd run"),
             rows |-> <<FinisherRow(TRUE, 1, "")>>]>>}

\* Pages of races held on day 1, for which a points list is in the store.
ScrapePages ==
    {NoPage}
    \cup [fetch_ok : {TRUE}, race_date : {1}, discipline : Disciplines \cup {NoneStr},
          has_table : {FALSE}, rows : {<<>>}, non_finishers : {<<>>}]
    \cup [fetch_ok : {TRUE}, race_date : {1, None}, discipline : Disciplines,
          has_table : {TRUE}, rows : ScrapeFinisherTables,
          non_finishers : ScrapeNonFinisherTables]

\* race_info = {} : every .get() answers None.
EmptyInfo ==
    [fis_db_id |-> None, race_date |-> None, discipline |-> NoneStr,
     win_time |-> None, penalty |-> None,
     total_starters |-> None, total_finishers |-> None]

\* _parse_fis_race_header: the identity and metadata read off the page.
_parse_fis_race_header(page, race_id) ==
    [EmptyInfo EXCEPT !.fis_db_id = race_id,
                      !.race_date = page.race_date,
                      !.discipline = page.discipline]

\* str.lower() of a part of a heading.
Lower(text) ==
    CASE text = "Disqualified" -> "disqualified"
      [] text = "Did not finish" -> "did not finish"
      [] text = "Did not start" -> "did not start"
      [] text = "DID NOT START" -> "did not start"
      [] text = "Did not qualify" -> "did not qualify"
      [] text = "Not permitted to start" -> "not permitted to start"
      [] text = "Reserve" -> "reserve"
      [] text = "1ST RUN" -> "1st run"
      [] OTHER -> text

\* _get_result_status of a non-finisher table's heading: the status word
\* the heading's phrase stands for, followed by the run the heading names.
_get_result_status_no_run(text) ==
    CASE Lower(text.phrase) = "disqualified" -> "DSQ"
      [] Lower(text.phrase) = "did not finish" -> "DNF"
      [] Lower(text.phrase) = "did not start" -> "DNS"
      [] Lower(text.phrase) = "did not qualify" -> "DNQ"
      [] Lower(text.phrase) = "not permitted to start" -> "NPS"
      [] OTHER -> NoneStr

_get_result_status(text) ==
    LET run == IF Lower(text.run) = "2nd run" THEN "2"
               ELSE IF Lower(text.run) = "1st run" THEN "1"
               ELSE ""
    IN CASE Lower(text.phrase) = "disqualified" -> "DSQ" \o run
         [] Lower(text.phrase) = "did not finish" -> "DNF" \o run
         [] Lower(text.phrase) = "did not start" -> "DNS" \o run
         [] Lower(text.phrase) = "did not qualify" -> "DNQ" \o run
         [] Lower(text.phrase) = "not permitted to start" -> "NPS" \o run
         [] OTHER -> NoneStr

\* str.isdigit() and int() of a first cell.
IsDigit(text) == text \in {"1", "2", "7"}

IntOf(text) ==
    CASE text = "1" -> 1
      [] text = "2" -> 2
      [] text = "7" -> 7

\* float() of the minutes and of the seconds of a time text, in hundredths
\* of a second; None where float() raises ValueError.
MinutesOf(text) ==
    CASE text = "1:02.30" -> 1
      [] text = "2:00.80" -> 2
      [] OTHER -> None

SecondsOf(text) ==
    CASE text = "58.50" -> 5850
      [] text = "1:02.30" -> 230
      [] text = "2:00.80" -> 80
      [] OTHER -> None

\* _parse_time: seconds (here in hundredths) of "SS.ss" or "M:SS.ss"; None
\* for an empty text, for "-" and for a text that is not a time.
_parse_time(time_str) ==
    IF time_str = "" \/ time_str = "-" THEN None
    ELSE IF SecondsOf(time_str) = None THEN None
    ELSE IF MinutesOf(time_str) # None
    THEN MinutesOf(time_str) * 6000 + SecondsOf(time_str)
    ELSE SecondsOf(time_str)

\* float(text) of a points cell where _is_float(text), in hundredths.
PointsOf(text) ==
    CASE text = "12.50" -> 1250
      [] text = "0.00" -> 0
      [] OTHER -> None

\* _parse_fis_table_row of a row that has its containers: the result dictionary.
_parse_fis_table_row(row, result_status) ==
    [athlete_fis_db_id |-> row.athlete_fis_db_id,
     rank |-> IF IsDigit(row.rank_text) THEN IntOf(row.rank_text) ELSE None,
     run1_time |-> IF Len(row.times) > 0 THEN _parse_time(row.times[1]) ELSE None,
     run2_time |-> IF Len(row.times) > 1 THEN _parse_time(row.times[2]) ELSE None,
     racer_time |-> IF Len(row.times) > 0 THEN _parse_time(row.times[Len(row.times)])
                    ELSE None,
     points |-> IF result_status = NoneStr THEN PointsOf(row.points_text) ELSE None,
     result |-> result_status]

\* _parse_fis_table_row for each row of a table, rows it returns None for left out.
RECURSIVE ParseRows(_, _, _)
ParseRows(rows, result_status, i) ==
    IF i > Len(rows) THEN <<>>
    ELSE (IF rows[i].ok
          THEN <<_parse_fis_table_row(rows[i], result_status)>>
          ELSE <<>>) \o ParseRows(rows, result_status, i + 1)

\* _get_non_finishers: the rows of every non-finisher table, each with the
\* status of its table's heading.
RECURSIVE _get_non_finishers(_, _)
_get_non_finishers(tables, i) ==
    IF i > Len(tables) THEN <<>>
    ELSE ParseRows(tables[i].rows, _get_result_status(tables[i].heading), 1)
         \o _get_non_finishers(tables, i + 1)

\* A count of the rows that carry a status.
_calculate_total_starters_status_only(results) ==
    Cardinality({i \in 1..Len(results) : results[i].result # NoneStr})

\* A count that leaves out every "did not start" row, whatever the run.
_calculate_total_starters_no_dns(results) ==
    Len(results) - Cardinality({i \in 1..Len(results) :
                                   results[i].result \in {"DNS", "DNS1", "DNS2"}})

\* _calculate_total_starters
_calculate_total_starters(results) ==
    Len(results) - Cardinality({i \in 1..Len(results) : results[i].result = "DNS1"})

\* scrape_race_results going on to the rows whatever the resolver answered.
scrape_race_results_ungated(page, race_id, pls, aths, catalog, ingest_ok) ==
    LET nothing(ri, e) == [race_info |-> ri, results |-> <<>>, raised |-> FALSE,
                           points_lists |-> e.points_lists,
                           athletes |-> e.athletes, resolver |-> e.res]
        untouched == [points_lists |-> pls, athletes |-> aths, res |-> NoResolver]
        race_info == _parse_fis_race_header(page, race_id)
    IN IF ~page.fetch_ok THEN nothing(EmptyInfo, untouched)
       ELSE IF race_info.discipline = NoneStr THEN nothing(race_info, untouched)
       ELSE IF ~page.has_table THEN nothing(race_info, untouched)
       ELSE LET e == IF race_info.race_date # None
                     THEN _ensure_points_list_for_date(pls, aths, race_info.race_date,
                                                       catalog, ingest_ok)
                     ELSE untouched
            IN IF FALSE
               THEN nothing(race_info, e)
               ELSE LET finishers == ParseRows(page.rows, NoneStr, 1)
                        results == finishers \o _get_non_finishers(page.non_finishers, 1)
                    IN IF finishers = <<>>
                       THEN nothing(race_info, e)
                       ELSE IF ~page.rows[1].ok
                       THEN \* _get_winner_info subscripts the None its row parse returned
                            [nothing(race_info, e) EXCEPT !.raised = TRUE]
                       ELSE \* _get_winner_info(rows[0]): the first row parsed, so
                            \* it is finishers[1]
                            [race_info |-> [race_info EXCEPT
                                               !.win_time = finishers[1].racer_time,
                                               !.penalty = finishers[1].points,
                                               !.total_finishers = Len(finishers),
                                               !.total_starters = _calculate_total_starters(results)],
                             results |-> results,
                             raised |-> FALSE,
                             points_lists |-> e.points_lists,
                             athletes |-> e.athletes,
                             resolver |-> e.res]

\* scrape_race_results that never turns to the resolver.
scrape_race_results_unresolved(page, race_id, pls, aths, catalog, ingest_ok) ==
    LET nothing(ri, e) == [race_info |-> ri, results |-> <<>>, raised |-> FALSE,
                           points_lists |-> e.points_lists,
                           athletes |-> e.athletes, resolver |-> e.res]
        untouched == [points_lists |-> pls, athletes |-> aths, res |-> NoResolver]
        race_info == _parse_fis_race_header(page, race_id)
    IN IF ~page.fetch_ok THEN nothing(EmptyInfo, untouched)
       ELSE IF race_info.discipline = NoneStr THEN nothing(race_info, untouched)
       ELSE IF ~page.has_table THEN nothing(race_info, untouched)
       ELSE LET e == untouched
            IN IF FALSE
               THEN nothing(race_info, e)
               ELSE LET finishers == ParseRows(page.rows, NoneStr, 1)
                        results == finishers \o _get_non_finishers(page.non_finishers, 1)
                    IN IF finishers = <<>>
                       THEN nothing(race_info, e)
                       ELSE IF ~page.rows[1].ok
                       THEN \* _get_winner_info subscripts the None its row parse returned
                            [nothing(race_info, e) EXCEPT !.raised = TRUE]
                       ELSE \* _get_winner_info(rows[0]): the first row parsed, so
                            \* it is finishers[1]
                            [race_info |-> [race_info EXCEPT
                                               !.win_time = finishers[1].racer_time,
                                               !.penalty = finishers[1].points,
                                               !.total_finishers = Len(finishers),
                                               !.total_starters = _calculate_total_starters(results)],
                             results |-> results,
                             raised |-> FALSE,
                             points_lists |-> e.points_lists,
                             athletes |-> e.athletes,
                             resolver |-> e.res]

\* scrape_race_results(race_id).  catalog, ingest_ok: what the points-list
\* collaborator answers if the resolver turns to it.
scrape_race_results(page, race_id, pls, aths, catalog, ingest_ok) ==
    LET nothing(ri, e) == [race_info |-> ri, results |-> <<>>, raised |-> FALSE,
                           points_lists |-> e.points_lists,
                           athletes |-> e.athletes, resolver |-> e.res]
        untouched == [points_lists |-> pls, athletes |-> aths, res |-> NoResolver]
        race_info == _parse_fis_race_header(page, race_id)
    IN IF ~page.fetch_ok THEN nothing(EmptyInfo, untouched)
       ELSE IF race_info.discipline = NoneStr THEN nothing(race_info, untouched)
       ELSE IF ~page.has_table THEN nothing(race_info, untouched)
       ELSE LET e == IF race_info.race_date # None
                     THEN _ensure_points_list_for_date(pls, aths, race_info.race_date,
                                                       catalog, ingest_ok)
                     ELSE untouched
            IN IF race_info.race_date # None /\ e.res.ret = None
               THEN nothing(race_info, e)
               ELSE LET finishers == ParseRows(page.rows, NoneStr, 1)
                        results == finishers \o _get_non_finishers(page.non_finishers, 1)
                    IN IF finishers = <<>>
                       THEN nothing(race_info, e)
                       ELSE IF ~page.rows[1].ok
                       THEN \* _get_winner_info subscripts the None its row parse returned
                            [nothing(race_info, e) EXCEPT !.raised = TRUE]
                       ELSE \* _get_winner_info(rows[0]): the first row parsed, so
                            \* it is finishers[1]
                            [race_info |-> [race_info EXCEPT
                                               !.win_time = finishers[1].racer_time,
                                               !.penalty = finishers[1].points,
                                               !.total_finishers = Len(finishers),
                                               !.total_starters = _calculate_total_starters(results)],
                             results |-> results,
                             raised |-> FALSE,
                             points_lists |-> e.points_lists,
                             athletes |-> e.athletes,
                             resolver |-> e.res]

\* ------------------------------------------------------------------ fetches
\* What the site answers to one requests.get: whether the connection worked,
\* the status code, and the hrefs of the anchors that carry the marker class.
Response(network_ok, status, links) ==
    [network_ok |-> network_ok, status |-> status, links |-> links]

NoResponse == Response(FALSE, None, <<>>)

StatusCodes == {200, 404, 500}

LinkLists ==
    {<<>>, <<"?raceid=1">>, <<"?raceid=2", "?raceid=1">>, <<"?raceid=1", "?eventid=7">>}

Responses ==
    {NoResponse}
    \cup {Response(TRUE, st, links) : st \in StatusCodes, links \in LinkLists}

\* requests.get raises on a connection failure, raise_for_status on a status
\* of 400 or more.
TransportError(response) ==
    \/ ~response.network_ok
    \/ response.status >= 400

\* _parse_race_id_from_link
_parse_race_id_from_link(link) ==
    CASE link = "?raceid=1" -> 1
      [] link = "?raceid=2" -> 2
      [] OTHER -> None

RECURSIVE RaceIdsFromLinks(_, _)
RaceIdsFromLinks(links, i) ==
    IF i > Len(links) THEN <<>>
    ELSE <<_parse_race_id_from_link(links[i])>> \o RaceIdsFromLinks(links, i + 1)

\* find_events_by_category: one request; the hrefs of the event anchors.
find_events_by_category(response) ==
    IF TransportError(response)
    THEN [ret |-> <<>>, raised |-> TRUE, requests |-> 1]
    ELSE [ret |-> response.links, raised |-> FALSE, requests |-> 1]

\* find_races_by_event: one request; the race id of each race anchor.
find_races_by_event(response) ==
    IF TransportError(response)
    THEN [ret |-> <<>>, raised |-> TRUE, requests |-> 1]
    ELSE [ret |-> RaceIdsFromLinks(response.links, 1), raised |-> FALSE,
          requests |-> 1]

\* A page fetch that answers None when the request fails.
_get_race_results_page_none(response, page) ==
    [page |-> IF TransportError(response) THEN NoPage
              ELSE [page EXCEPT !.fetch_ok = TRUE],
     raised |-> FALSE, requests |-> 1]

\* _get_race_results_page: one request; the document, page, when it arrives.
_get_race_results_page(response, page) ==
    IF TransportError(response)
    THEN [page |-> NoPage, raised |-> TRUE, requests |-> 1]
    ELSE [page |-> [page EXCEPT !.fetch_ok = TRUE], raised |-> FALSE,
          requests |-> 1]

\* ------------------------------------------------------------------ inputs
\* Header dictionaries a caller may hand to record_race and
\* _get_or_create_race: complete ones, and ones with an identity field
\* absent (or, for the id, zero).
Header(f, d, k) ==
    [fis_db_id |-> f, race_date |-> d, discipline |-> k,
     win_time |-> 12080, penalty |-> 1250,
     total_starters |-> 2, total_finishers |-> 1]

RaceInfos ==
    {Header(1, d, k) : d \in Dates, k \in Disciplines}
    \cup {[Header(1, 1, k) EXCEPT !.win_time = 11000, !.penalty = 0,
                                  !.total_starters = 3, !.total_finishers = 2]
            : k \in Disciplines}
    \cup {Header(f, d, k) : f \in {None, 0}, d \in Dates, k \in Disciplines}
    \cup {Header(1, None, k) : k \in Disciplines}
    \cup {Header(1, d, NoneStr) : d \in Dates}

ResultDicts ==
    {_parse_fis_table_row(FinisherRow(TRUE, 1, "1"), NoneStr),
     _parse_fis_table_row(FinisherRow(TRUE, 2, ""), "DNF1")}

ResultLists == UNION {[1..n -> ResultDicts] : n \in 0..MaxResults}

AllOk(results) == [i \in 1..Len(results) |-> "ok"]

\* The failures worth drawing for a call: a flush can only fail when a row
\* is inserted, the loop and the commit only when the batch is saved.
FlushChoices(db, ri) ==
    IF ~MissingRequired(ri) /\ ~db.needs_rollback /\ FindRace(db.races, ri) = 0
    THEN BOOLEAN ELSE {FALSE}

SaveReached(db, ri, results) ==
    LET g == _get_or_create_race(db, ri, FALSE)
    IN /\ g.race # None
       /\ results # <<>>
       /\ ResultCount(db.race_results, g.race) = 0

OutcomeChoices(db, ri, results) ==
    IF SaveReached(db, ri, results)
    THEN [1..Len(results) -> {"ok", "error"}] ELSE {AllOk(results)}

CommitChoices(db, ri, results) ==
    IF SaveReached(db, ri, results) THEN BOOLEAN ELSE {FALSE}

\* The catalog only matters when the resolver turns to it.
CatalogChoices(pls, race_date) ==
    IF race_date # None /\ _get_points_list_for_date(pls, race_date) = None
    THEN Catalogs ELSE {<<>>}

IngestChoices(pls, race_date, catalog) ==
    IF /\ race_date # None
       /\ _get_points_list_for_date(pls, race_date) = None
       /\ ValidLists(catalog, race_date) # <<>>
    THEN BOOLEAN ELSE {TRUE}

\* ------------------------------------------------------------- bookkeeping
NoCounts == <<0, 0, 0>>

Idle == [active |-> FALSE, seen |-> 0, skipped |-> 0, recorded_races |-> 0,
         no_additional_results |-> 0, errors |-> 0]

Triple(ri) == <<ri.fis_db_id, ri.race_date, ri.discipline>>

NoCall ==
    [op |-> "none", triple |-> Triple(EmptyInfo), n |-> 0,
     ret |-> None, raised |-> FALSE, race |-> None, created |-> FALSE,
     failed |-> FALSE, resolver |-> NoResolver, outcome |-> "none",
     counts |-> NoCounts, requests |-> 0, found |-> <<>>]

NoArgs ==
    [race_info |-> EmptyInfo, results |-> <<>>, race_date |-> None,
     catalog |-> <<>>, ingest_ok |-> TRUE, page |-> NoPage,
     response |-> NoResponse]

\* Two runs of the program on the same store, each with a session of its
\* own.  pc: where the run is in record_race; snapshot: the committed Race
\* rows its lookup saw; pending: the row it flushed and has not committed.
Writers == {1, 2}

NoWriter ==
    [pc |-> "idle", race_info |-> EmptyInfo, results |-> <<>>, snapshot |-> <<>>,
     race |-> None, created |-> FALSE, pending |-> <<>>, ret |-> None]

NoWriters == [w \in Writers |-> NoWriter]

\* What a run keeps of a call: all of it, or only which operation it was.
Logged(keep, call) == IF keep THEN call ELSE [NoCall EXCEPT !.op = call.op]

Kept(keep, a) == IF keep THEN a ELSE NoArgs

Init ==
    /\ races = <<>>
    /\ race_results = <<>>
    /\ next_race_id = 1
    /\ needs_rollback = FALSE
    /\ points_lists = {}
    /\ athletes = {}
    /\ sweep = Idle
    /\ last = NoCall
    /\ writers = NoWriters
    /\ args = NoArgs

SetDb(db) ==
    /\ races' = db.races
    /\ race_results' = db.race_results
    /\ next_race_id' = db.next_race_id
    /\ needs_rollback' = db.needs_rollback

\* ------------------------------------------------------------ direct calls
\* A call of _ensure_points_list_for_date.
CallEnsurePointsList(keep) ==
    /\ UNCHANGED writers
    /\ ~sweep.active
    /\ \E race_date \in Dates :
         \E catalog \in IF keep THEN Catalogs
                        ELSE CatalogChoices(points_lists, race_date) :
           \E ingest_ok \in IF keep THEN BOOLEAN
                            ELSE IngestChoices(points_lists, race_date, catalog) :
             \E e \in {_ensure_points_list_for_date(points_lists, athletes, race_date,
                                                      catalog, ingest_ok)} :
                /\ points_lists' = e.points_lists
                /\ athletes' = e.athletes
                /\ last' = Logged(keep, [NoCall EXCEPT
                                           !.op = "_ensure_points_list_for_date",
                                           !.resolver = e.res])
                /\ args' = Kept(keep, [NoArgs EXCEPT !.race_date = race_date,
                                                     !.catalog = catalog,
                                                     !.ingest_ok = ingest_ok])
    /\ UNCHANGED <<races, race_results, next_race_id, needs_rollback, sweep>>

\* A call of _get_or_create_race.
CallGetOrCreateRace(keep) ==
    /\ UNCHANGED writers
    /\ ~sweep.active
    /\ \E ri \in RaceInfos :
         \E flush_fails \in FlushChoices(Db, ri) :
           \E g \in {_get_or_create_race(Db, ri, flush_fails)} :
              /\ g.db.next_race_id <= MaxRaceId + 1
              /\ SetDb(g.db)
              /\ last' = Logged(keep, [NoCall EXCEPT !.op = "_get_or_create_race",
                                                     !.triple = Triple(ri),
                                                     !.race = g.race,
                                                     !.raised = g.raised,
                                                     !.created = g.created])
              /\ args' = Kept(keep, [NoArgs EXCEPT !.race_info = ri])
    /\ UNCHANGED <<points_lists, athletes, sweep>>

\* A call of record_race.
CallRecordRace(keep) ==
    /\ UNCHANGED writers
    /\ ~sweep.active
    /\ \E ri \in RaceInfos, results \in ResultLists :
         \E flush_fails \in FlushChoices(Db, ri),
            outcomes \in OutcomeChoices(Db, ri, results),
            commit_fails \in CommitChoices(Db, ri, results) :
           \E r \in {record_race(Db, ri, results, flush_fails, outcomes,
                                   commit_fails, athletes)} :
              /\ r.db.next_race_id <= MaxRaceId + 1
              /\ SetDb(r.db)
              /\ last' = Logged(keep, [NoCall EXCEPT !.op = "record_race",
                                                     !.triple = Triple(ri),
                                                     !.n = Len(results),
                                                     !.ret = r.ret,
                                                     !.raised = r.raised,
                                                     !.race = r.race,
                                                     !.failed = r.failed])
              /\ args' = Kept(keep, [NoArgs EXCEPT !.race_info = ri,
                                                   !.results = results])
    /\ UNCHANGED <<points_lists, athletes, sweep>>

EnsurePointsList == CallEnsurePointsList(FALSE)

GetOrCreateRace == CallGetOrCreateRace(FALSE)

RecordRace == CallRecordRace(FALSE)

\* ---------------------------------------------------------- process_events
\* query(Race).filter(Race.fis_db_id == race_id).first(): the query has no
\* ORDER BY, so any matching row may be the one answered; 0: no row matches.
FirstByFisDbId(rs, race_id) ==
    LET hits == {i \in 1..Len(rs) : race_id # None /\ rs[i].fis_db_id = race_id}
    IN IF hits = {} THEN {0} ELSE hits

\* The counters after one scraped race.
Tally(sw, results, saved_count, discipline) ==
    LET seen == [sw EXCEPT !.seen = @ + 1] IN
    IF results # <<>>
    THEN IF saved_count > 0 THEN [seen EXCEPT !.recorded_races = @ + 1]
         ELSE IF saved_count = 0 THEN [seen EXCEPT !.no_additional_results = @ + 1]
         ELSE [seen EXCEPT !.errors = @ + 1]
    ELSE IF discipline = NoneStr THEN [seen EXCEPT !.errors = @ + 1]
    ELSE [seen EXCEPT !.no_additional_results = @ + 1]

Outcome(before, after) ==
    IF after.recorded_races > before.recorded_races THEN "recorded"
    ELSE IF after.errors > before.errors THEN "error"
    ELSE "no_additional_results"

\* process_events is entered with a list of events.
ProcessEventsStart ==
    /\ UNCHANGED writers
    /\ ~sweep.active
    /\ sweep' = [Idle EXCEPT !.active = TRUE]
    /\ last' = [NoCall EXCEPT !.op = "process_events"]
    /\ args' = NoArgs
    /\ UNCHANGED <<races, race_results, next_race_id, needs_rollback,
                   points_lists, athletes>>

\* An exception leaves process_events: the sweep is over, nothing is returned.
SweepRaises(keep) ==
    /\ sweep' = Idle
    /\ last' = Logged(keep, [NoCall EXCEPT !.op = "process_events", !.raised = TRUE,
                                           !.outcome = "raised"])

\* The body of "for race_id in race_ids" for one race id.
SweepRace(keep) ==
    /\ UNCHANGED writers
    /\ sweep.active
    /\ sweep.seen < MaxSweep
    /\ args' = NoArgs
    /\ \E race_id \in FisDbIds \cup {None} :
         IF needs_rollback
         THEN /\ SweepRaises(keep)
              /\ UNCHANGED <<races, race_results, next_race_id, needs_rollback,
                             points_lists, athletes>>
         ELSE \E m \in FirstByFisDbId(races, race_id) :
           IF m # 0 /\ ResultCount(race_results, races[m].id) > 0
           THEN \* "continue": the page is not fetched; d and k are the date
                \* and discipline it shows at this moment
                \E d \in IF keep THEN Dates ELSE {None},
                   k \in IF keep THEN Disciplines ELSE {NoneStr} :
                /\ sweep' = [sweep EXCEPT !.seen = @ + 1, !.skipped = @ + 1]
                /\ last' = Logged(keep, [NoCall EXCEPT
                                           !.op = "process_race",
                                           !.triple = <<race_id, d, k>>,
                                           !.race = races[m].id,
                                           !.outcome = "skipped"])
                /\ UNCHANGED <<races, race_results, next_race_id, needs_rollback,
                               points_lists, athletes>>
           ELSE \E page \in Pages :
             \E catalog \in CatalogChoices(points_lists, page.race_date) :
               \E ingest_ok \in IngestChoices(points_lists, page.race_date, catalog) :
                 \E sc \in {scrape_race_results(page, race_id, points_lists, athletes,
                                                  catalog, ingest_ok)} :
                    /\ points_lists' = sc.points_lists
                    /\ athletes' = sc.athletes
                    /\ IF sc.raised
                       THEN /\ SweepRaises(keep)
                            /\ UNCHANGED <<races, race_results, next_race_id,
                                           needs_rollback>>
                       ELSE \E flush_fails \in FlushChoices(Db, sc.race_info),
                               outcomes \in OutcomeChoices(Db, sc.race_info, sc.results),
                               commit_fails \in CommitChoices(Db, sc.race_info, sc.results) :
                              \E r \in {IF sc.results # <<>>
                                        THEN record_race(Db, sc.race_info, sc.results,
                                                         flush_fails, outcomes,
                                                         commit_fails, sc.athletes)
                                        ELSE [db |-> Db, ret |-> None, raised |-> FALSE,
                                              race |-> None, failed |-> FALSE]} :
                              \E sw \in {Tally(sweep, sc.results, r.ret,
                                                sc.race_info.discipline)} :
                                 /\ r.db.next_race_id <= MaxRaceId + 1
                                 /\ SetDb(r.db)
                                 /\ sweep' = sw
                                 /\ last' = Logged(keep, [NoCall EXCEPT
                                               !.op = "process_race",
                                               !.triple = Triple(sc.race_info),
                                               !.n = Len(sc.results),
                                               !.ret = r.ret,
                                               !.race = r.race,
                                               !.failed = r.failed,
                                               !.resolver = sc.resolver,
                                               !.outcome = Outcome(sweep, sw)])

ProcessRace == SweepRace(FALSE)

ProcessRaceLogged == SweepRace(TRUE)

\* process_events returns its three counters.
ProcessEventsReturn ==
    /\ UNCHANGED writers
    /\ sweep.active
    /\ sweep' = Idle
    /\ last' = [NoCall EXCEPT !.op = "process_events",
                              !.outcome = "returned",
                              !.counts = <<sweep.recorded_races,
                                           sweep.no_additional_results,
                                           sweep.errors>>]
    /\ args' = NoArgs
    /\ UNCHANGED <<races, race_results, next_race_id, needs_rollback,
                   points_lists, athletes>>

Next ==
    \/ EnsurePointsList
    \/ GetOrCreateRace
    \/ RecordRace
    \/ ProcessEventsStart
    \/ ProcessRace
    \/ ProcessEventsReturn

Spec == Init /\ [][Next]_vars

\* The sweep alone.
NextSweep ==
    \/ ProcessEventsStart
    \/ ProcessRaceLogged
    \/ ProcessEventsReturn

SpecSweep == Init /\ [][NextSweep]_vars

\* Direct calls, each kept whole with its arguments.
GetOrCreateRaceLogged == CallGetOrCreateRace(TRUE)

RecordRaceLogged == CallRecordRace(TRUE)

EnsurePointsListLogged == CallEnsurePointsList(TRUE)

\* The store once points list 1 has been ingested, before any race.
InitCalls ==
    /\ races = <<>>
    /\ race_results = <<>>
    /\ next_race_id = 1
    /\ needs_rollback = FALSE
    /\ points_lists = {[listid |-> 1, valid_from |-> 1, valid_to |-> 1]}
    /\ athletes = {[id |-> 11, fis_db_id |-> 1]}
    /\ sweep = Idle
    /\ last = NoCall
    /\ writers = NoWriters
    /\ args = NoArgs

NextCalls ==
    \/ GetOrCreateRaceLogged
    \/ RecordRaceLogged

SpecCalls == InitCalls /\ [][NextCalls]_vars

\* The store once points list 1 has been ingested, and the page the site
\* serves for the race.
InitScrape ==
    /\ races = <<>>
    /\ race_results = <<>>
    /\ next_race_id = 1
    /\ needs_rollback = FALSE
    /\ points_lists = {[listid |-> 1, valid_from |-> 1, valid_to |-> 1]}
    /\ athletes = {[id |-> 11, fis_db_id |-> 1]}
    /\ sweep = Idle
    /\ last = NoCall
    /\ writers = NoWriters
    /\ \E page \in ScrapePages : args = [NoArgs EXCEPT !.page = page]

\* main(race_id=...): one run of the program for a single race, whose page
\* is args.page.  The run has a session of its own: what it did not commit
\* is gone when it ends.  args keeps what scrape_race_results returned.
MainRaceId ==
    /\ UNCHANGED writers
    /\ ~sweep.active
    /\ \E race_id \in {f \in FisDbIds : Truthy(f)}, page \in {args.page} :
         \E catalog \in CatalogChoices(points_lists, page.race_date) :
           \E ingest_ok \in IngestChoices(points_lists, page.race_date, catalog) :
             \E sc \in {scrape_race_results(page, race_id, points_lists, athletes,
                                              catalog, ingest_ok)} :
                /\ points_lists' = sc.points_lists
                /\ athletes' = sc.athletes
                /\ args' = [args EXCEPT !.race_info = sc.race_info,
                                        !.results = sc.results]
                /\ IF sc.raised
                   THEN /\ last' = [NoCall EXCEPT !.op = "main", !.raised = TRUE,
                                                  !.outcome = "raised"]
                        /\ UNCHANGED <<races, race_results, next_race_id,
                                       needs_rollback>>
                   ELSE \E flush_fails \in FlushChoices(Db, sc.race_info),
                           outcomes \in OutcomeChoices(Db, sc.race_info, sc.results),
                           commit_fails \in CommitChoices(Db, sc.race_info, sc.results) :
                          \E r \in {IF sc.results # <<>>
                                    THEN record_race(Db, sc.race_info, sc.results,
                                                     flush_fails, outcomes,
                                                     commit_fails, sc.athletes)
                                    ELSE [db |-> Db, ret |-> None, raised |-> FALSE,
                                          race |-> None, failed |-> FALSE]} :
                             /\ r.db.next_race_id <= MaxRaceId + 1
                             /\ races' = Rollback(r.db.races)
                             /\ race_results' = r.db.race_results
                             /\ next_race_id' = r.db.next_race_id
                             /\ needs_rollback' = FALSE
                             /\ last' = [NoCall EXCEPT !.op = "main",
                                                       !.triple = Triple(sc.race_info),
                                                       !.n = Len(sc.results),
                                                       !.ret = r.ret,
                                                       !.race = r.race,
                                                       !.failed = r.failed,
                                                       !.resolver = sc.resolver]
    /\ UNCHANGED sweep

NextScrape == MainRaceId

SpecScrape == InitScrape /\ [][NextScrape]_vars

\* The store of InitCalls, a response of the site and the race page it
\* carries when the request succeeds.
FetchPages ==
    {[fetch_ok |-> TRUE, race_date |-> None, discipline |-> "SL",
      has_table |-> has_table, rows |-> rows, non_finishers |-> <<>>]
       : has_table \in {TRUE}, rows \in {<<>>, <<FinisherRow(TRUE, 1, "1")>>}}

InitFetch ==
    /\ races = <<>>
    /\ race_results = <<>>
    /\ next_race_id = 1
    /\ needs_rollback = FALSE
    /\ points_lists = {[listid |-> 1, valid_from |-> 1, valid_to |-> 1]}
    /\ athletes = {[id |-> 11, fis_db_id |-> 1]}
    /\ sweep = Idle
    /\ last = NoCall
    /\ writers = NoWriters
    /\ \E response \in Responses, page \in FetchPages :
          args = [NoArgs EXCEPT !.response = response, !.page = page]

\* A call of find_events_by_category answered by args.response.
FindEventsByCategory ==
    /\ UNCHANGED writers
    /\ \E r \in {find_events_by_category(args.response)} :
          last' = [NoCall EXCEPT !.op = "find_events_by_category",
                                 !.raised = r.raised,
                                 !.requests = r.requests,
                                 !.found = r.ret]
    /\ UNCHANGED <<races, race_results, next_race_id, needs_rollback,
                   points_lists, athletes, sweep, args>>

\* A call of find_races_by_event answered by args.response.
FindRacesByEvent ==
    /\ UNCHANGED writers
    /\ \E r \in {find_races_by_event(args.response)} :
          last' = [NoCall EXCEPT !.op = "find_races_by_event",
                                 !.raised = r.raised,
                                 !.requests = r.requests,
                                 !.found = r.ret]
    /\ UNCHANGED <<races, race_results, next_race_id, needs_rollback,
                   points_lists, athletes, sweep, args>>

\* A call of _get_race_results_page answered by args.response.
GetRaceResultsPage ==
    /\ UNCHANGED writers
    /\ \E r \in {_get_race_results_page(args.response, args.page)} :
          last' = [NoCall EXCEPT !.op = "_get_race_results_page",
                                 !.raised = r.raised,
                                 !.requests = r.requests]
    /\ UNCHANGED <<races, race_results, next_race_id, needs_rollback,
                   points_lists, athletes, sweep, args>>

\* A call of scrape_race_results whose page request is answered by
\* args.response: a RequestException raised by the fetch is caught.
ScrapeRaceResults ==
    /\ UNCHANGED writers
    /\ \E race_id \in {f \in FisDbIds : Truthy(f)} :
        \E f \in {_get_race_results_page(args.response, args.page)} :
          \E sc \in {scrape_race_results(IF f.raised THEN NoPage ELSE f.page,
                                           race_id, points_lists, athletes,
                                           <<>>, TRUE)} :
             /\ points_lists' = sc.points_lists
             /\ athletes' = sc.athletes
             /\ args' = [args EXCEPT !.race_info = sc.race_info,
                                     !.results = sc.results]
             /\ last' = [NoCall EXCEPT !.op = "scrape_race_results",
                                       !.raised = sc.raised,
                                       !.requests = f.requests,
                                       !.triple = Triple(sc.race_info),
                                       !.n = Len(sc.results)]
    /\ UNCHANGED <<races, race_results, next_race_id, needs_rollback, sweep>>

NextFetch ==
    \/ FindEventsByCategory
    \/ FindRacesByEvent
    \/ GetRaceResultsPage
    \/ ScrapeRaceResults

SpecFetch == InitFetch /\ [][NextFetch]_vars

\* The races two concurrent runs ingest, each with one finisher of athlete 1.
WriterInfos == {Header(1, d, k) : d \in Dates, k \in Disciplines}

WriterResults == <<_parse_fis_table_row(FinisherRow(TRUE, 1, "1"), NoneStr)>>

\* A run enters record_race for a race.
WriterStart(w) ==
    /\ writers[w].pc \in {"idle", "done"}
    /\ next_race_id <= MaxRaceId
    /\ \E ri \in WriterInfos :
          writers' = [writers EXCEPT ![w] = [NoWriter EXCEPT !.pc = "start",
                                                            !.race_info = ri,
                                                            !.results = WriterResults]]
    /\ UNCHANGED <<races, race_results, next_race_id, needs_rollback,
                   points_lists, athletes, sweep, last, args>>

\* The query of _get_or_create_race is answered: the run's transaction sees
\* the rows committed so far.
WriterLookup(w) ==
    /\ writers[w].pc = "start"
    /\ writers' = [writers EXCEPT ![w].pc = "looked", ![w].snapshot = races]
    /\ UNCHANGED <<races, race_results, next_race_id, needs_rollback,
                   points_lists, athletes, sweep, last, args>>

\* _get_or_create_race goes on with what its query returned: the Race found,
\* or a new row added and flushed, which takes the next id of the table and
\* stays invisible to the other run until the commit.
WriterGetOrCreate(w) ==
    /\ writers[w].pc = "looked"
    /\ \E g \in {_get_or_create_race([races |-> writers[w].snapshot,
                                        race_results |-> race_results,
                                        next_race_id |-> next_race_id,
                                        needs_rollback |-> FALSE],
                                       writers[w].race_info, FALSE)} :
          /\ g.db.next_race_id <= MaxRaceId + 1
          /\ next_race_id' = g.db.next_race_id
          /\ writers' = [writers EXCEPT
                            ![w].pc = "has_race",
                            ![w].race = g.race,
                            ![w].created = g.created,
                            ![w].pending = IF g.created
                                           THEN <<g.db.races[Len(g.db.races)]>>
                                           ELSE <<>>]
    /\ UNCHANGED <<races, race_results, needs_rollback,
                   points_lists, athletes, sweep, last, args>>

\* The rest of record_race: nothing when the Race holds results, else
\* _save_race_results and its commit, which makes the run's rows durable.
WriterSave(w) ==
    /\ writers[w].pc = "has_race"
    /\ IF ResultCount(race_results, writers[w].race) > 0
       THEN /\ writers' = [writers EXCEPT ![w].pc = "done", ![w].ret = 0,
                                          ![w].pending = <<>>]
            /\ UNCHANGED <<races, race_results>>
       ELSE \E s \in {_save_race_results([races |-> races \o writers[w].pending,
                                           race_results |-> race_results,
                                           next_race_id |-> next_race_id,
                                           needs_rollback |-> FALSE],
                                          writers[w].race, writers[w].results,
                                          AllOk(writers[w].results), FALSE,
                                          athletes)} :
              /\ races' = s.db.races
              /\ race_results' = s.db.race_results
              /\ writers' = [writers EXCEPT ![w].pc = "done",
                                            ![w].ret = s.saved_count,
                                            ![w].pending = <<>>]
    /\ UNCHANGED <<next_race_id, needs_rollback, points_lists, athletes,
                   sweep, last, args>>

RunStart == \E w \in Writers : WriterStart(w)

RunLookup == \E w \in Writers : WriterLookup(w)

RunGetOrCreate == \E w \in Writers : WriterGetOrCreate(w)

RunSave == \E w \in Writers : WriterSave(w)

NextWriters ==
    \/ RunStart
    \/ RunLookup
    \/ RunGetOrCreate
    \/ RunSave

SpecWriters == InitCalls /\ [][NextWriters]_vars

NextResolver == EnsurePointsListLogged

SpecResolver == Init /\ [][NextResolver]_vars

\* -------------------------------------------------------------- properties
\* C1, as stated: when record_race is called a second time with the header
\* and the non-empty result list of a call that returned N > 0, the second
\* call returns 0 and adds no RaceResult row.
C1_SecondCallSkips ==
    [][(/\ last.op = "record_race"
        /\ last.ret > 0
        /\ last'.op = "record_race"
        /\ ~last'.raised
        /\ args' = args)
       => (/\ last'.ret = 0
           /\ race_results' = race_results)]_vars

\* C2, as stated: a record_race call in which adding a result or the commit
\* failed leaves the race with none of the batch's results or with all of
\* them (every result whose athlete is in the store).
C2_AllOrNothing ==
    [][(/\ last'.op = "record_race"
        /\ last'.failed)
       => LET added == Len(race_results') - Len(race_results)
              all == Cardinality({i \in 1..Len(args'.results) :
                         \E a \in athletes :
                            a.fis_db_id = args'.results[i].athlete_fis_db_id})
          IN added = 0 \/ added = all]_vars

\* C3: a record_race call that returns, for a header whose Race already has
\* at least one RaceResult, returns 0 and changes neither a Race row nor a
\* RaceResult row, whether or not the stored count equals len(results).
C3_ExistingResultsUntouched ==
    [][(/\ last'.op = "record_race"
        /\ ~last'.raised
        /\ \E i \in 1..Len(races) :
              /\ SameTriple(races[i], args'.race_info)
              /\ ResultCount(race_results, races[i].id) > 0)
       => (/\ last'.ret = 0
           /\ races' = races
           /\ race_results' = race_results)]_vars

\* C3 witness: record_race has just returned 0 for a race that holds results
\* whose number differs from the number of results handed in (a conflict).
C3_Witness ==
    /\ last.op = "record_race"
    /\ last.ret = 0
    /\ last.race # None
    /\ last.n > 0
    /\ ResultCount(race_results, last.race) > 0
    /\ ResultCount(race_results, last.race) # last.n

\* C8: _get_or_create_race, given a header in which fis_db_id, race_date or
\* discipline is absent, returns None and creates no Race row: the store is
\* as it was.
C8_MissingFieldReturnsNone ==
    [][(/\ last'.op = "_get_or_create_race"
        /\ \/ args'.race_info.fis_db_id = None
           \/ args'.race_info.race_date = None
           \/ args'.race_info.discipline = NoneStr)
       => (/\ last'.race = None
           /\ ~last'.raised
           /\ ~last'.created
           /\ UNCHANGED <<races, race_results, next_race_id, needs_rollback>>)]_vars

\* C8 witness: a call with only the id absent has returned None while the
\* store holds a Race.
C8_Witness ==
    /\ last.op = "_get_or_create_race"
    /\ args.race_info.fis_db_id = None
    /\ args.race_info.race_date # None
    /\ args.race_info.discipline # NoneStr
    /\ last.race = None
    /\ races # <<>>

\* C9, as stated: _get_or_create_race with all three identity fields present
\* returns the existing Race and changes no row when one has the triple, and
\* otherwise inserts exactly one Race carrying the header's fields and
\* returns it.
C9_GetOrCreate ==
    [][(/\ last'.op = "_get_or_create_race"
        /\ args'.race_info.fis_db_id # None
        /\ args'.race_info.race_date # None
        /\ args'.race_info.discipline # NoneStr)
       => IF \E i \in 1..Len(races) : SameTriple(races[i], args'.race_info)
          THEN /\ races' = races
               /\ \E i \in 1..Len(races) :
                     /\ SameTriple(races[i], args'.race_info)
                     /\ last'.race = races[i].id
          ELSE /\ Len(races') = Len(races) + 1
               /\ SubSeq(races', 1, Len(races)) = races
               /\ SameTriple(races'[Len(races')], args'.race_info)
               /\ races'[Len(races')].total_starters = args'.race_info.total_starters
               /\ races'[Len(races')].total_finishers = args'.race_info.total_finishers
               /\ last'.race = races'[Len(races')].id]_vars

C4_PointsListGate ==
    [][(/\ last'.op = "process_race"
        /\ \/ /\ last'.triple[2] # None
              /\ \A l \in points_lists' : ~Covers(l, last'.triple[2])
           \/ /\ last'.resolver.called
              /\ last'.resolver.ret = None)
       => race_results' = race_results]_vars

\* C4 witness: with athletes in the store, the sweep has just abandoned a
\* race with a usable id whose date the resolver found no list for, after
\* asking the catalog.
C4_Witness ==
    /\ last.op = "process_race"
    /\ last.resolver.called
    /\ last.resolver.catalog_requests = 1
    /\ last.resolver.ret = None
    /\ last.triple[1] = 1
    /\ last.triple[2] # None
    /\ last.n = 0
    /\ athletes # {}

\* C5, as stated: a sweep step that abandons a race because the resolver
\* answered None adds one to errors and leaves no_additional_results as it was.
C5_AbandonedCountsAsError ==
    [][(/\ last'.op = "process_race"
        /\ last'.resolver.called
        /\ last'.resolver.ret = None)
       => (/\ sweep'.errors = sweep.errors + 1
           /\ sweep'.no_additional_results = sweep.no_additional_results)]_vars

\* C6, as stated: the resolver makes no ingestion call and no catalog request
\* when a stored list covers the date; exactly one ingestion call, for the
\* first covering catalog entry, when none is stored but the catalog has a
\* covering entry, and then answers a list; no ingestion call and None when
\* no catalog entry covers the date.
C6_IngestionCalls ==
    [][(last'.op = "_ensure_points_list_for_date")
       => LET d == args'.race_date
              cat == args'.catalog
              res == last'.resolver
              local == \E l \in points_lists : Covers(l, d)
              covering == {i \in 1..Len(cat) :
                              /\ cat[i].valid_from # None
                              /\ cat[i].valid_to # None
                              /\ Covers(cat[i], d)}
          IN /\ local => /\ res.ingest_calls = 0
                         /\ res.catalog_requests = 0
                         /\ res.ret # None
             /\ (~local /\ covering # {}) =>
                   /\ res.ingest_calls = 1
                   /\ \A i \in covering : res.ingested = cat[i].listid \/ \E j \in covering : j < i
                   /\ res.ret # None
             /\ (~local /\ covering = {}) =>
                   /\ res.ingest_calls = 0
                   /\ res.ret = None]_vars

\* C6, amended: as C6, except that after the one ingestion call the resolver
\* answers a list exactly when the ingestion succeeded, and None when it
\* failed; where no ingestion call is made the points lists stay as they were.
C6_IngestionCallsAmended ==
    [][(last'.op = "_ensure_points_list_for_date")
       => LET d == args'.race_date
              cat == args'.catalog
              res == last'.resolver
              local == \E l \in points_lists : Covers(l, d)
              covering == {i \in 1..Len(cat) :
                              /\ cat[i].valid_from # None
                              /\ cat[i].valid_to # None
                              /\ Covers(cat[i], d)}
          IN /\ local => /\ res.ingest_calls = 0
                         /\ res.catalog_requests = 0
                         /\ res.ret # None
                         /\ points_lists' = points_lists
             /\ (~local /\ covering # {}) =>
                   /\ res.ingest_calls = 1
                   /\ \A i \in covering : res.ingested = cat[i].listid \/ \E j \in covering : j < i
                   /\ (res.ret # None) <=> args'.ingest_ok
                   /\ args'.ingest_ok => \E l \in points_lists' :
                                            l.listid = res.ingested /\ Covers(l, d)
                   /\ ~args'.ingest_ok => points_lists' = points_lists
             /\ (~local /\ covering = {}) =>
                   /\ res.ingest_calls = 0
                   /\ res.ret = None
                   /\ points_lists' = points_lists]_vars

\* C6 witness: with no stored list for the date and a catalog whose second
\* entry is the first covering one, the resolver made its one ingestion call
\* for that entry; the ingestion failed and the resolver answered None.
C6_Witness ==
    /\ last.op = "_ensure_points_list_for_date"
    /\ last.resolver.ingest_calls = 1
    /\ Len(args.catalog) = 2
    /\ ~Covers(args.catalog[1], args.race_date)
    /\ last.resolver.ingested = args.catalog[2].listid
    /\ ~args.ingest_ok
    /\ last.resolver.ret = None

\* C7: no two Race rows of the store have the same fis_db_id, race_date and
\* discipline.
C7_OneRacePerTriple ==
    \A i, j \in 1..Len(races) : SameTriple(races[i], races[j]) => i = j

\* C7 witness: after a get-or-create call the store holds two Race rows, one
\* committed with results and one only flushed.
C7_Witness ==
    /\ last.op = "_get_or_create_race"
    /\ Len(races) = 2
    /\ races[1].committed
    /\ ~races[2].committed
    /\ race_results # <<>>

\* C11, as stated: once record_race, handed an empty result list, has resolved
\* the header to a Race, it has returned 0 and the Race row is in the store
\* and is still there after the record_race call that comes next (one whose
\* batch for another race is rolled back included).
C11_EmptyResultsPersistsRace ==
    [][(/\ last.op = "record_race"
        /\ last.n = 0
        /\ ~last.raised
        /\ last.race # None
        /\ last'.op = "record_race")
       => (/\ last.ret = 0
           /\ last.race \in RaceIdsOf(races)
           /\ last.race \in RaceIdsOf(races'))]_vars

\* C14, as stated: the value record_race returns when it saves a batch is the
\* number of RaceResult rows the call added.
C14_ReturnsRowsAdded ==
    [][(/\ last'.op = "record_race"
        /\ ~last'.raised
        /\ last'.race # None
        /\ args'.results # <<>>
        /\ ResultCount(race_results, last'.race) = 0)
       => last'.ret = Len(race_results') - Len(race_results)]_vars

C20_SweepReturnsCounts ==
    [][sweep.active
       => \/ sweep'.active
          \/ /\ last'.op = "process_events"
             /\ last'.outcome = "returned"
             /\ last'.counts = <<sweep.recorded_races, sweep.no_additional_results,
                                 sweep.errors>>]_vars

\* C19, as stated: a sweep step that scrapes a race whose id, date or
\* discipline could not be established persists no Race and no RaceResult
\* row and adds one to errors.
C19_MissingIdentityIsError ==
    [][(/\ last'.op = "process_race"
        /\ last'.outcome # "skipped"
        /\ \/ last'.triple[1] = None
           \/ last'.triple[2] = None
           \/ last'.triple[3] = NoneStr)
       => (/\ races' = races
           /\ race_results' = race_results
           /\ sweep'.errors = sweep.errors + 1)]_vars

\* C16, as stated: when a scrape has returned results, total_finishers in
\* the header it returned is the number of returned rows whose total time
\* (racer_time) is not None.
C16_TotalFinishers ==
    (last.op = "main" /\ args.results # <<>>)
    => args.race_info.total_finishers =
          Cardinality({i \in 1..Len(args.results) : args.results[i].racer_time # None})

\* C17: whenever a scrape derived the statistics (it returned results),
\* total_starters is at least total_finishers.
C17_StartersAtLeastFinishers ==
    (last.op = "main" /\ args.results # <<>>)
    => args.race_info.total_starters >= args.race_info.total_finishers

\* C17 witness: a scrape returned two finishers and one non-finisher who did
\* not start the first run: two starters, two finishers.
C17_Witness ==
    /\ last.op = "main"
    /\ Len(args.results) = 3
    /\ args.results[3].result = "DNS1"
    /\ args.race_info.total_finishers = 2
    /\ args.race_info.total_starters = 2

\* C18: whenever a scrape derived the statistics, total_starters is the
\* number of rows it parsed off the page (finisher table and non-finisher
\* tables) less the rows of tables headed "did not start" for the first run;
\* rows with any other status are counted.
C18_StartersExcludeOnlyDNS1 ==
    (last.op = "main" /\ args.results # <<>>)
    => LET page == args.page
           parsed(rows) == Cardinality({i \in 1..Len(rows) : rows[i].ok})
           dns1(t) == /\ Lower(t.heading.phrase) = "did not start"
                      /\ Lower(t.heading.run) = "1st run"
           counted == {k \in 1..Len(page.non_finishers) : ~dns1(page.non_finishers[k])}
           nf[k \in 0..Len(page.non_finishers)] ==
               IF k = 0 THEN 0
               ELSE nf[k - 1] + (IF k \in counted
                                 THEN parsed(page.non_finishers[k].rows) ELSE 0)
       IN /\ args.race_info.total_starters
                = parsed(page.rows) + nf[Len(page.non_finishers)]
          /\ args.race_info.total_starters
                = Cardinality({i \in 1..Len(args.results) :
                                  args.results[i].result # "DNS1"})

\* C18 witness: a scrape returned a finisher, two rows with status DNS1 and
\* one with status DNS2: two starters.
C18_Witness ==
    /\ last.op = "main"
    /\ Len(args.results) = 4
    /\ args.results[1].result = NoneStr
    /\ args.results[2].result = "DNS1"
    /\ args.results[3].result = "DNS1"
    /\ args.results[4].result = "DNS2"
    /\ args.race_info.total_starters = 2

\* C15, as stated: every RaceResult row of the store has a rank or a result
\* status, and never both.
C15_RankXorStatus ==
    \A i \in 1..Len(race_results) :
       (race_results[i].rank # None) # (race_results[i].result # NoneStr)

C24_StatusFromHeading ==
    (last.op = "main" /\ args.results # <<>>)
    => LET page == args.page
           nf == page.non_finishers
           parsed(rows) == Cardinality({i \in 1..Len(rows) : rows[i].ok})
           first[k \in 1..Len(nf) + 1] ==
               IF k = 1 THEN parsed(page.rows) + 1
               ELSE first[k - 1] + parsed(nf[k - 1].rows)
           phrase(k) == Lower(nf[k].heading.phrase)
           code(k) == IF phrase(k) = "disqualified" THEN "DSQ"
                      ELSE IF phrase(k) = "did not finish" THEN "DNF"
                      ELSE IF phrase(k) = "did not start" THEN "DNS"
                      ELSE IF phrase(k) = "did not qualify" THEN "DNQ"
                      ELSE IF phrase(k) = "not permitted to start" THEN "NPS"
                      ELSE NoneStr
           index(k) == IF Lower(nf[k].heading.run) = "1st run" THEN "1"
                       ELSE IF Lower(nf[k].heading.run) = "2nd run" THEN "2"
                       ELSE ""
           status(k) == IF code(k) = NoneStr THEN NoneStr ELSE code(k) \o index(k)
       IN /\ Len(args.results) = first[Len(nf) + 1] - 1
          /\ \A i \in 1..(first[1] - 1) : args.results[i].result = NoneStr
          /\ \A k \in 1..Len(nf) :
                \A i \in first[k]..(first[k + 1] - 1) :
                   args.results[i].result = status(k)

\* C24 witness: a scrape returned the rows of a table headed "DID NOT START
\* 1ST RUN" (two rows, status DNS1) and of one headed "Did not start 2nd
\* run" (status DNS2).
C24_Witness ==
    /\ last.op = "main"
    /\ Len(args.page.non_finishers) = 2
    /\ args.page.non_finishers[1].heading.phrase = "DID NOT START"
    /\ Len(args.results) >= 3
    /\ args.results[Len(args.results) - 2].result = "DNS1"
    /\ args.results[Len(args.results) - 1].result = "DNS1"
    /\ args.results[Len(args.results)].result = "DNS2"

\* C25, as stated: every status held by a RaceResult row of the store is one
\* of DNF1, DNF2, DNS1, DNS2, DSQ1, DSQ2, DNQ, NPS, DNF, DNS, DSQ.
C25_StatusInEnumeration ==
    \A i \in 1..Len(race_results) :
       race_results[i].result # NoneStr
       => race_results[i].result \in {"DNF1", "DNF2", "DNS1", "DNS2", "DSQ1", "DSQ2",
                                      "DNQ", "NPS", "DNF", "DNS", "DSQ"}

C27_WinnerFromRankOne ==
    (last.op = "main" /\ ~last.raised /\ args.results # <<>>)
        => \E i \in 1..Len(args.results) :
              /\ args.results[i].rank = 1
              /\ args.results[i].result = NoneStr
              /\ args.race_info.win_time = args.results[i].racer_time
              /\ args.race_info.penalty = args.results[i].points
\* C29: a Race that holds at least one RaceResult has the total_starters,
\* total_finishers, win_time and penalty of the scrape whose results it
\* holds, also when an earlier record_race call without results created it.
C29_StatisticsOfSameScrape ==
    [][(/\ last.op = "record_race" /\ last.n = 0
        /\ last'.op = "record_race" /\ Len(race_results') > Len(race_results))
          => \A i \in 1..Len(races') :
                races'[i].id = race_results'[Len(race_results')].race_id
                   => /\ races'[i].total_starters = args'.race_info.total_starters
                      /\ races'[i].total_finishers = args'.race_info.total_finishers
                      /\ races'[i].win_time = args'.race_info.win_time
                      /\ races'[i].penalty = args'.race_info.penalty]_vars
\* The sum of the three counters of a sweep.
Counted(sw) == sw.recorded_races + sw.no_additional_results + sw.errors

\* C28: in process_events every race id that is not skipped adds one to
\* exactly one of the three counters and a skipped id adds to none, so at
\* return the three counters sum to the ids gone through minus the skipped.
C28_OneCounterPerRace ==
    [][(sweep.active /\ sweep' # sweep)
         => IF last'.outcome = "returned"
            THEN Counted(sweep) = sweep.seen - sweep.skipped
            ELSE IF last'.outcome = "skipped"
            THEN /\ sweep'.recorded_races = sweep.recorded_races
                 /\ sweep'.no_additional_results = sweep.no_additional_results
                 /\ sweep'.errors = sweep.errors
            ELSE /\ Counted(sweep') = Counted(sweep) + 1
                 /\ sweep'.recorded_races >= sweep.recorded_races
                 /\ sweep'.no_additional_results >= sweep.no_additional_results
                 /\ sweep'.errors >= sweep.errors]_vars
\* C30: the sweep's pre-check agrees with record_race's identity rule: a
\* race id is skipped only if the Race that its page's (race id, date,
\* discipline) identifies holds results, never when that Race holds none.
C30_SkipAgreesWithIdentity ==
    [][(last'.op = "process_race" /\ last'.outcome = "skipped")
         => \E i \in 1..Len(races) :
               /\ races[i].fis_db_id = last'.triple[1]
               /\ races[i].race_date = last'.triple[2]
               /\ races[i].discipline = last'.triple[3]
               /\ ResultCount(race_results, races[i].id) > 0]_vars
DuplicateRaces ==
    \E i, j \in 1..Len(races) :
       /\ i < j
       /\ races[i].committed /\ races[j].committed
       /\ Triple(races[i]) = Triple(races[j])

\* C21: the store accepts a second Race row with the triple of a first; a
\* run creates a Race row only when its own lookup saw none with that
\* triple, so a commit adds a row whose triple a stored row already has only
\* where the run looked before that row was committed (lookup, lookup,
\* create, create).
C21_DuplicateOnlyFromConcurrentLookups ==
    [][\A w \in Writers :
         /\ (writers[w].pc = "looked" /\ writers'[w].created)
               => \A i \in 1..Len(writers[w].snapshot) :
                     Triple(writers[w].snapshot[i]) # Triple(writers[w].race_info)
         /\ (/\ writers[w].pc = "has_race"
             /\ writers'[w].pc = "done"
             /\ Len(races') > Len(races))
               => /\ Len(races') = Len(races) + 1
                  /\ races'[Len(races')].id = writers[w].race
                  /\ \A i \in 1..Len(races) :
                        Triple(races[i]) = Triple(races'[Len(races')])
                           => Len(writers[w].snapshot) < i]_vars

\* C21: both runs looked the race up on the empty store, both created it,
\* both committed: two Race rows with one triple, each holding a result.
C21_Witness ==
    /\ \A w \in Writers :
          /\ writers[w].pc = "done"
          /\ writers[w].created
          /\ writers[w].snapshot = <<>>
          /\ writers[w].ret = 1
    /\ Len(races) = 2
    /\ DuplicateRaces
    /\ Len(race_results) = 2
    /\ race_results[1].race_id # race_results[2].race_id
====
